---- MODULE Spec2Model ----
(***************************************************************************)
(* Model of FUTURE_DS_02.py: the churn pipeline                            *)
(*   process_data -> create_dashboard (calls calculate_risk_scores)        *)
(*                -> generate_report                                       *)
(* A DataFrame is a function from column names to equal-length sequences   *)
(* of cell values.  DataFrames live in a heap and are passed by reference, *)
(* as Python objects are.                                                  *)
(*                                                                         *)
(* Numbers.  TotalCharges values are held in units of 1/200 (half cents),  *)
(* so that the mean of two values with two decimals is exact.  A missing   *)
(* numeric cell (numpy NaN) is the value NaN, and every arithmetic or      *)
(* comparison on cells goes through an operator that treats NaN as IEEE    *)
(* does.  A missing text cell is the string NaStr.                         *)
(***************************************************************************)
EXTENDS Integers, Sequences, FiniteSets, TLC

VARIABLES fileExists, csv, heap, data, pc, console, image, report,
          scoreCalls, engCalls

vars == <<fileExists, csv, heap, data, pc, console, image, report,
          scoreCalls, engCalls>>

\* ------------------------------------------------------------------ bounds
MaxRows == 4
MaxCalls == 2

\* ------------------------------------------------------------- cell values
NaN == -1

NaStr == "NaN"

IsNaN(x) == x = NaN

\* IEEE comparison: any comparison with NaN is false
Lt(a, b) == ~IsNaN(a) /\ ~IsNaN(b) /\ a < b

\* IEEE addition: NaN propagates
Add(a, b) == IF IsNaN(a) \/ IsNaN(b) THEN NaN ELSE a + b

RECURSIVE Gcd(_, _)
Gcd(a, b) == IF b = 0 THEN a ELSE Gcd(b, a % b)

\* Float division, kept exact as a reduced fraction <<num, den>>;
\* <<0, 0>> is NaN and <<1, 0>> is inf
Div(a, b) ==
    IF IsNaN(a) \/ IsNaN(b) THEN <<0, 0>>
    ELSE IF b = 0 THEN (IF a = 0 THEN <<0, 0>> ELSE <<1, 0>>)
    ELSE LET g == Gcd(a, b) IN <<a \div g, b \div g>>

\* ------------------------------------------------------------- DataFrames
NRows(df) == Len(df["Contract"])

Rows(df) == 1..NRows(df)

\* df[c] = v : adds the column or overwrites it
SetCol(df, c, v) ==
    [k \in (DOMAIN df) \cup {c} |-> IF k = c THEN v ELSE df[k]]

\* df.loc[mask, c] += k
AddWhere(df, mask, c, k) ==
    SetCol(df, c, [i \in Rows(df) |-> IF mask[i] THEN df[c][i] + k ELSE df[c][i]])

\* ------------------------------------------------- pd.to_numeric (coerce)
Digits == {"0", "1", "2", "3", "4", "5", "6", "7", "8", "9"}

DigitVal(c) ==
    CASE c = "0" -> 0 [] c = "1" -> 1 [] c = "2" -> 2 [] c = "3" -> 3
      [] c = "4" -> 4 [] c = "5" -> 5 [] c = "6" -> 6 [] c = "7" -> 7
      [] c = "8" -> 8 [] c = "9" -> 9

RECURSIVE DigitsVal(_)
DigitsVal(s) ==
    IF s = <<>> THEN 0
    ELSE DigitsVal(SubSeq(s, 1, Len(s) - 1)) * 10 + DigitVal(s[Len(s)])

\* Hundredths denoted by the fractional digits (model tokens carry at most
\* two of them)
Hundredths(fp) ==
    IF Len(fp) = 0 THEN 0
    ELSE IF Len(fp) = 1 THEN DigitVal(fp[1]) * 10
    ELSE DigitVal(fp[1]) * 10 + DigitVal(fp[2])

\* One cell of the text column: a decimal numeral parses to its value (in
\* units of 1/200); an empty cell, a blank, or any other text becomes NaN
ToNumeric(s) ==
    LET dots  == {i \in 1..Len(s) : s[i] = "."}
        other == {i \in 1..Len(s) : s[i] \notin Digits \cup {"."}}
        digs  == {i \in 1..Len(s) : s[i] \in Digits}
    IN IF other # {} \/ Cardinality(dots) > 1 \/ digs = {} THEN NaN
       ELSE LET p  == IF dots = {} THEN Len(s) + 1 ELSE CHOOSE i \in dots : TRUE
                ip == SubSeq(s, 1, p - 1)
                fp == SubSeq(s, p + 1, Len(s))
            IN (DigitsVal(ip) * 100 + Hundredths(fp)) * 2

\* ------------------------------------------------------- Series.median()
\* the non-missing values, in row order
RECURSIVE DropNa(_)
DropNa(col) ==
    IF col = <<>> THEN <<>>
    ELSE IF IsNaN(Head(col)) THEN DropNa(Tail(col))
    ELSE <<Head(col)>> \o DropNa(Tail(col))

RECURSIVE Insert(_, _)
Insert(x, sorted) ==
    IF sorted = <<>> THEN <<x>>
    ELSE IF x <= Head(sorted) THEN <<x>> \o sorted
    ELSE <<Head(sorted)>> \o Insert(x, Tail(sorted))

RECURSIVE Sort(_)
Sort(s) == IF s = <<>> THEN <<>> ELSE Insert(Head(s), Sort(Tail(s)))

\* mutant: no interpolation, the upper middle value for an even count
MedianUpper(col) ==
    LET v == Sort(DropNa(col))
        n == Len(v)
    IN IF n = 0 THEN NaN ELSE v[n \div 2 + 1]

\* median with skipna: NaN for no values, the middle value for an odd
\* count, the mean of the two middle values for an even count
Median(col) ==
    LET v == Sort(DropNa(col))
        n == Len(v)
    IN IF n = 0 THEN NaN
       ELSE IF n % 2 = 1 THEN v[(n + 1) \div 2]
       ELSE (v[n \div 2] + v[n \div 2 + 1]) \div 2

\* Series.fillna(value): fillna(NaN) leaves the column as it is
FillNa(col, value) ==
    [i \in 1..Len(col) |-> IF IsNaN(col[i]) THEN value ELSE col[i]]

\* ------------------------------------------------------------ process_data
ServiceColumns ==
    <<"OnlineSecurity", "OnlineBackup", "DeviceProtection", "TechSupport",
      "StreamingTV", "StreamingMovies">>

\* mutant: a reader that hands back an empty table for an absent file
ReadCsvNoRaise(exists, content) == [raised |-> FALSE, df |-> content]

\* pd.read_csv: raises FileNotFoundError when the file is absent
ReadCsv(exists, content) == [raised |-> ~exists, df |-> content]

\* lines 24-25: coerce TotalCharges, then fill the gaps with the median
CleanTotalCharges(df) ==
    LET coerced == SetCol(df, "TotalCharges",
                     [i \in Rows(df) |-> ToNumeric(df["TotalCharges"][i])])
    IN SetCol(coerced, "TotalCharges",
              FillNa(coerced["TotalCharges"], Median(coerced["TotalCharges"])))

\* mutant: (df['Churn'] == 'Yes').astype(int)
ChurnMapBinary(x) == IF x = "Yes" THEN 1 ELSE 0

\* Series.map({'Yes': 1, 'No': 0}): a label outside the dict maps to NaN
ChurnMap(x) == IF x = "Yes" THEN 1 ELSE IF x = "No" THEN 0 ELSE NaN

\* mutant: (df[services] != 'No').sum(axis=1)
ServiceCountNotNo(df) ==
    [i \in Rows(df) |->
        Cardinality({k \in 1..Len(ServiceColumns) : df[ServiceColumns[k]][i] # "No"})]

\* (df[services] == 'Yes').sum(axis=1)
ServiceCount(df) ==
    [i \in Rows(df) |->
        Cardinality({k \in 1..Len(ServiceColumns) : df[ServiceColumns[k]][i] = "Yes"})]

\* lambda x: 1 if x in ['One year', 'Two year'] else 0
IsLongTerm(x) == IF x \in {"One year", "Two year"} THEN 1 ELSE 0

\* mutant: tenure is shifted in place before the division
FeatureEngineerShiftsTenure(df) ==
    LET d1 == SetCol(df, "Churn_Numeric",
                [i \in Rows(df) |-> ChurnMap(df["Churn"][i])])
        d2 == SetCol(d1, "Service_Count", ServiceCount(d1))
        t2 == SetCol(d2, "tenure", [i \in Rows(d2) |-> Add(d2["tenure"][i], 1)])
        d3 == SetCol(t2, "Charge_Velocity",
                [i \in Rows(t2) |-> Div(t2["MonthlyCharges"][i], t2["tenure"][i])])
    IN SetCol(d3, "Is_Long_Term",
              [i \in Rows(d3) |-> IsLongTerm(d3["Contract"][i])])

\* mutant: Service_Count is added to the column already there
FeatureEngineerAccumulates(df) ==
    LET d1 == SetCol(df, "Churn_Numeric",
                [i \in Rows(df) |-> ChurnMap(df["Churn"][i])])
        sc == ServiceCount(d1)
        d2 == SetCol(d1, "Service_Count",
                [i \in Rows(d1) |->
                    IF "Service_Count" \in DOMAIN d1
                    THEN d1["Service_Count"][i] + sc[i] ELSE sc[i]])
        d3 == SetCol(d2, "Charge_Velocity",
                [i \in Rows(d2) |-> Div(d2["MonthlyCharges"][i], Add(d2["tenure"][i], 1))])
    IN SetCol(d3, "Is_Long_Term",
              [i \in Rows(d3) |-> IsLongTerm(d3["Contract"][i])])

\* lines 27-39: the four derived columns
FeatureEngineer(df) ==
    LET d1 == SetCol(df, "Churn_Numeric",
                [i \in Rows(df) |-> ChurnMap(df["Churn"][i])])
        d2 == SetCol(d1, "Service_Count", ServiceCount(d1))
        d3 == SetCol(d2, "Charge_Velocity",
                [i \in Rows(d2) |-> Div(d2["MonthlyCharges"][i], Add(d2["tenure"][i], 1))])
    IN SetCol(d3, "Is_Long_Term",
              [i \in Rows(d3) |-> IsLongTerm(d3["Contract"][i])])

\* process_data: the table it returns, or the exception it raises
ProcessData(exists, content) ==
    LET r == ReadCsv(exists, content)
    IN IF r.raised THEN r
       ELSE [raised |-> FALSE, df |-> FeatureEngineer(CleanTotalCharges(r.df))]

\* --------------------------------------------------- calculate_risk_scores
\* mutant: the tenure rule reads <= 12
ApplyRulesTenureLe(d0) ==
    LET d1 == AddWhere(d0, [i \in Rows(d0) |-> d0["Contract"][i] = "Month-to-month"],
                       "Risk_Score", 40)
        d2 == AddWhere(d1, [i \in Rows(d1) |-> d1["InternetService"][i] = "Fiber optic"],
                       "Risk_Score", 20)
        d3 == AddWhere(d2, [i \in Rows(d2) |-> d2["TechSupport"][i] = "No"],
                       "Risk_Score", 20)
    IN AddWhere(d3, [i \in Rows(d3) |-> Lt(d3["tenure"][i], 13)],
                "Risk_Score", 20)

\* lines 51-54: the four masked additions, in order
ApplyRules(d0) ==
    LET d1 == AddWhere(d0, [i \in Rows(d0) |-> d0["Contract"][i] = "Month-to-month"],
                       "Risk_Score", 40)
        d2 == AddWhere(d1, [i \in Rows(d1) |-> d1["InternetService"][i] = "Fiber optic"],
                       "Risk_Score", 20)
        d3 == AddWhere(d2, [i \in Rows(d2) |-> d2["TechSupport"][i] = "No"],
                       "Risk_Score", 20)
    IN AddWhere(d3, [i \in Rows(d3) |-> Lt(d3["tenure"][i], 12)],
                "Risk_Score", 20)

\* mutant: the scores are written to a copy, which is returned
CalculateRiskScoresOnCopy(h, ref) ==
    LET d0 == SetCol(h[ref], "Risk_Score", [i \in Rows(h[ref]) |-> 0])
        new == Cardinality(DOMAIN h) + 1
    IN [heap |-> [r \in (DOMAIN h) \cup {new} |->
                     IF r = new THEN ApplyRules(d0) ELSE h[r]],
        ret |-> new]

\* mutant: an existing Risk_Score column is not reset
CalculateRiskScoresAccumulates(h, ref) ==
    LET d0 == IF "Risk_Score" \in DOMAIN h[ref] THEN h[ref]
              ELSE SetCol(h[ref], "Risk_Score", [i \in Rows(h[ref]) |-> 0])
    IN [heap |-> [h EXCEPT ![ref] = ApplyRules(d0)], ret |-> ref]

\* Works on the object the caller passed (in place) and returns that same
\* object: the result is the new heap and the reference returned.
CalculateRiskScores(h, ref) ==
    LET d0 == SetCol(h[ref], "Risk_Score", [i \in Rows(h[ref]) |-> 0])
    IN [heap |-> [h EXCEPT ![ref] = ApplyRules(d0)], ret |-> ref]

\* --------------------------------------------------------- generate_report
RECURSIVE SumSeq(_)
SumSeq(s) == IF s = <<>> THEN 0 ELSE Head(s) + SumSeq(Tail(s))

\* the three aggregates of lines 114-116; a mean is kept as <<sum, count>>
\* over the non-missing cells.  A missing column raises KeyError.
GenerateReport(df) ==
    IF ~({"Churn_Numeric", "Risk_Score"} \subseteq DOMAIN df)
    THEN [raised |-> TRUE, churn_rate |-> <<0, 0>>, avg_risk |-> <<0, 0>>,
          high_risk_base |-> 0]
    ELSE LET ch == DropNa(df["Churn_Numeric"])
             rs == DropNa(df["Risk_Score"])
         IN [raised |-> FALSE,
             churn_rate |-> <<SumSeq(ch) * 100, Len(ch)>>,
             avg_risk |-> <<SumSeq(rs), Len(rs)>>,
             high_risk_base |->
                 Cardinality({i \in Rows(df) : ~Lt(df["Risk_Score"][i], 60)
                                               /\ ~IsNaN(df["Risk_Score"][i])})]

\* the sixteen print calls of lines 118-133
ReportLines ==
    <<"banner", "title", "banner", "churn_rate", "avg_risk", "high_risk",
      "rule", "drivers", "driver1", "driver2", "driver3", "rule",
      "strategy", "target", "offer", "banner">>

\* the print call of line 151
ErrorLine == "file_not_found"

NoReport ==
    [raised |-> FALSE, churn_rate |-> <<0, 0>>, avg_risk |-> <<0, 0>>,
     high_risk_base |-> 0]

\* ------------------------------------------------------------------ inputs
ColumnNames ==
    {"Contract", "InternetService", "tenure", "MonthlyCharges", "TotalCharges",
     "Churn", "OnlineSecurity", "OnlineBackup", "DeviceProtection",
     "TechSupport", "StreamingTV", "StreamingMovies"}

\* TotalCharges cells as the file holds them: "29.85", "1840.75", " ", "x"
Tok2985 == <<"2", "9", ".", "8", "5">>

Tok184075 == <<"1", "8", "4", "0", ".", "7", "5">>

TokBlank == <<" ">>

TokText == <<"x">>

Tokens == {Tok2985, Tok184075, TokBlank, TokText}

HighRiskRow ==
    [Contract |-> "Month-to-month", InternetService |-> "Fiber optic",
     tenure |-> 3, MonthlyCharges |-> 70, TotalCharges |-> Tok2985,
     Churn |-> "Yes", OnlineSecurity |-> "No", OnlineBackup |-> "No",
     DeviceProtection |-> "No", TechSupport |-> "No", StreamingTV |-> "Yes",
     StreamingMovies |-> "Yes"]

LowRiskRow ==
    [Contract |-> "Two year", InternetService |-> "DSL",
     tenure |-> 48, MonthlyCharges |-> 20, TotalCharges |-> Tok184075,
     Churn |-> "No", OnlineSecurity |-> "Yes", OnlineBackup |-> "Yes",
     DeviceProtection |-> "No", TechSupport |-> "Yes", StreamingTV |-> "No",
     StreamingMovies |-> "No"]

ServiceVals == {"Yes", "No", "No internet service"}

\* one row, every combination of the six add-on fields
ServiceRows ==
    {[LowRiskRow EXCEPT !.OnlineSecurity = a, !.OnlineBackup = b,
                        !.DeviceProtection = c, !.TechSupport = d,
                        !.StreamingTV = e, !.StreamingMovies = f] :
        a \in ServiceVals, b \in ServiceVals, c \in ServiceVals,
        d \in ServiceVals, e \in ServiceVals, f \in ServiceVals}

\* one row, every combination of the fields the other rules read, with
\* missing and unexpected values among them
RuleRows ==
    {[LowRiskRow EXCEPT !.Contract = c, !.InternetService = n, !.TechSupport = t,
                        !.tenure = m, !.Churn = ch, !.MonthlyCharges = mc] :
        c \in {"Month-to-month", "One year", "Two year", NaStr},
        n \in {"Fiber optic", "DSL", NaStr},
        t \in ServiceVals,
        m \in {0, 11, 12, NaN},
        ch \in {"Yes", "No", NaStr},
        mc \in {20, 70}}

\* rows of the multi-row tables: the two risk profiles, each with a
\* TotalCharges cell that parses, a blank one, and one holding other text
ProfileRows ==
    {[HighRiskRow EXCEPT !.TotalCharges = tok] : tok \in {Tok2985, TokBlank, TokText}}
      \cup {[LowRiskRow EXCEPT !.TotalCharges = tok] : tok \in {Tok184075, TokBlank}}

RowLists ==
    {<<r>> : r \in ServiceRows \cup RuleRows}
      \cup UNION {[1..n -> ProfileRows] : n \in 0..MaxRows}

\* the column-wise table read_csv builds from the rows of the file
ToTable(rows) == [c \in ColumnNames |-> [i \in 1..Len(rows) |-> rows[i][c]]]

\* a file may already carry a Risk_Score column
WithPriorScore(t, p) == SetCol(t, "Risk_Score", [i \in Rows(t) |-> p])

InputTables ==
    {ToTable(rows) : rows \in RowLists}
      \cup {WithPriorScore(ToTable(rows), 100) : rows \in RowLists}

NoFile == ToTable(<<>>)

\* ----------------------------------------------------------- the main run
Init ==
    /\ fileExists \in BOOLEAN
    /\ IF fileExists THEN csv \in InputTables ELSE csv = NoFile
    /\ heap = <<>>
    /\ data = 0
    /\ pc = "start"
    /\ console = <<>>
    /\ image = FALSE
    /\ report = NoReport
    /\ scoreCalls = 0
    /\ engCalls = 0

\* lines 140-142 and 150-151: data = process_data(...), or the handler
MainProcessData ==
    /\ pc = "start"
    /\ LET r == ProcessData(fileExists, csv)
       IN IF r.raised
          THEN /\ console' = Append(console, ErrorLine)
               /\ pc' = "done"
               /\ UNCHANGED <<heap, data>>
          ELSE /\ heap' = (1 :> r.df)
               /\ data' = 1
               /\ pc' = "processed"
               /\ UNCHANGED console
    /\ UNCHANGED <<fileExists, csv, image, report, scoreCalls, engCalls>>

\* line 145: create_dashboard(data).  Drawing a panel or writing the image
\* may raise; nothing but FileNotFoundError is caught, so the run aborts.
MainCreateDashboard ==
    /\ pc = "processed"
    /\ \E outcome \in {"ok", "panel_error", "save_error"} :
         IF outcome = "panel_error"
         THEN /\ pc' = "crashed"
              /\ UNCHANGED <<heap, image, scoreCalls>>
         ELSE LET r == CalculateRiskScores(heap, data)
              IN /\ heap' = r.heap
                 /\ scoreCalls' = scoreCalls + 1
                 /\ image' = (outcome = "ok")
                 /\ pc' = IF outcome = "ok" THEN "dashboard_done" ELSE "crashed"
    /\ UNCHANGED <<fileExists, csv, data, console, report, engCalls>>

\* line 148: generate_report(data)
MainGenerateReport ==
    /\ pc = "dashboard_done"
    /\ LET r == GenerateReport(heap[data])
       IN IF r.raised
          THEN /\ report' = r
               /\ pc' = "crashed"
               /\ UNCHANGED console
          ELSE /\ report' = r
               /\ console' = console \o ReportLines
               /\ pc' = "done"
    /\ UNCHANGED <<fileExists, csv, heap, data, image, scoreCalls, engCalls>>

Next == MainProcessData \/ MainCreateDashboard \/ MainGenerateReport

Spec == Init /\ [][Next]_vars

\* ------------------------------------------- the functions called directly
\* a caller that loads a table and then applies the functions to it again
LibInit == Init /\ fileExists

LibProcessData ==
    /\ pc = "start"
    /\ LET r == ProcessData(fileExists, csv)
       IN /\ ~r.raised
          /\ heap' = (1 :> r.df)
          /\ data' = 1
          /\ pc' = "processed"
    /\ UNCHANGED <<fileExists, csv, console, image, report, scoreCalls, engCalls>>

\* lines 27-39 run again on the table process_data returned
LibFeatureEngineer ==
    /\ pc = "processed"
    /\ engCalls < MaxCalls
    /\ heap' = [heap EXCEPT ![data] = FeatureEngineer(heap[data])]
    /\ engCalls' = engCalls + 1
    /\ UNCHANGED <<fileExists, csv, data, pc, console, image, report, scoreCalls>>

\* data = calculate_risk_scores(data)
LibCalculateRiskScores ==
    /\ pc = "processed"
    /\ scoreCalls < MaxCalls
    /\ LET r == CalculateRiskScores(heap, data)
       IN /\ heap' = r.heap
          /\ data' = r.ret
    /\ scoreCalls' = scoreCalls + 1
    /\ UNCHANGED <<fileExists, csv, pc, console, image, report, engCalls>>

LibNext == LibProcessData \/ LibFeatureEngineer \/ LibCalculateRiskScores

LibSpec == LibInit /\ [][LibNext]_vars

\* ================================================================ properties
\* the table bound to `data`, once process_data has returned
Loaded == data # 0

Table == heap[data]

DerivedColumns == {"Churn_Numeric", "Service_Count", "Charge_Velocity", "Is_Long_Term"}

\* the four rule contributions of one row of a table, summed
FourRuleSum(t, i) ==
    (IF t["Contract"][i] = "Month-to-month" THEN 40 ELSE 0)
  + (IF t["InternetService"][i] = "Fiber optic" THEN 20 ELSE 0)
  + (IF t["TechSupport"][i] = "No" THEN 20 ELSE 0)
  + (IF t["tenure"][i] # NaN /\ t["tenure"][i] < 12 THEN 20 ELSE 0)

MatchesAll(t, i) ==
    /\ t["Contract"][i] = "Month-to-month"
    /\ t["InternetService"][i] = "Fiber optic"
    /\ t["TechSupport"][i] = "No"
    /\ t["tenure"][i] # NaN /\ t["tenure"][i] < 12

MatchesNone(t, i) ==
    /\ t["Contract"][i] # "Month-to-month"
    /\ t["InternetService"][i] # "Fiber optic"
    /\ t["TechSupport"][i] # "No"
    /\ (t["tenure"][i] = NaN \/ t["tenure"][i] >= 12)

Parsed == {i \in Rows(csv) : ToNumeric(csv["TotalCharges"][i]) # NaN}

ParsedVal(i) == ToNumeric(csv["TotalCharges"][i])

\* C2: after cleaning, TotalCharges holds no missing value and every value
\* that parsed is unchanged (the claim as stated, for every input table).
C2_NoMissingAfterCleaning ==
    Loaded =>
        \A i \in Rows(Table) :
            /\ Table["TotalCharges"][i] # NaN
            /\ i \in Parsed => Table["TotalCharges"][i] = ParsedVal(i)

\* x is the k-th smallest of the parsed values
IsKth(x, k) ==
    /\ Cardinality({j \in Parsed : ParsedVal(j) < x}) < k
    /\ k <= Cardinality({j \in Parsed : ParsedVal(j) <= x})

\* m is the median of the parsed values: the mean of the lower and the upper
\* middle value (which coincide for an odd count)
IsMedianOfParsed(m) ==
    LET n == Cardinality(Parsed)
    IN \E a, b \in Parsed :
          /\ IsKth(ParsedVal(a), (n + 1) \div 2)
          /\ IsKth(ParsedVal(b), n \div 2 + 1)
          /\ 2 * m = ParsedVal(a) + ParsedVal(b)

C4_MissingFileOneMessage ==
    ~fileExists =>
        /\ pc \in {"start", "done"}
        /\ pc = "done" => console = <<ErrorLine>>
        /\ pc = "start" => console = <<>>
        /\ ~image
        /\ ~Loaded
        /\ scoreCalls = 0
        /\ report = NoReport

C4_Witness == ~fileExists /\ pc = "done" /\ Len(console) = 1

\* the number of the six add-on fields of row i that read exactly "Yes"
YesCount(t, i) ==
    (IF t["OnlineSecurity"][i] = "Yes" THEN 1 ELSE 0)
  + (IF t["OnlineBackup"][i] = "Yes" THEN 1 ELSE 0)
  + (IF t["DeviceProtection"][i] = "Yes" THEN 1 ELSE 0)
  + (IF t["TechSupport"][i] = "Yes" THEN 1 ELSE 0)
  + (IF t["StreamingTV"][i] = "Yes" THEN 1 ELSE 0)
  + (IF t["StreamingMovies"][i] = "Yes" THEN 1 ELSE 0)

ScenarioServices(t, i) ==
    /\ t["OnlineSecurity"][i] = "Yes"
    /\ t["OnlineBackup"][i] = "Yes"
    /\ t["DeviceProtection"][i] = "No"
    /\ t["TechSupport"][i] = "No internet service"
    /\ t["StreamingTV"][i] = "Yes"
    /\ t["StreamingMovies"][i] = "No"

\* C5: Service_Count lies in 0..6 and counts the add-on fields equal to
\* "Yes"; [Yes,Yes,No,No internet service,Yes,No] gives 3.
C5_ServiceCountCountsYes ==
    Loaded =>
        \A i \in Rows(Table) :
            /\ Table["Service_Count"][i] \in 0..6
            /\ Table["Service_Count"][i] = YesCount(csv, i)
            /\ ScenarioServices(csv, i) => Table["Service_Count"][i] = 3

C5_Witness ==
    /\ Loaded
    /\ \E i \in Rows(Table) : ScenarioServices(csv, i) /\ Table["Service_Count"][i] = 3

\* C6 as stated: in every row Churn_Numeric is 0 or 1, 1 for "Yes" and 0
\* for "No".
C6_ChurnNumericAlwaysBinary ==
    Loaded =>
        \A i \in Rows(Table) :
            /\ Table["Churn_Numeric"][i] \in {0, 1}
            /\ csv["Churn"][i] = "Yes" => Table["Churn_Numeric"][i] = 1
            /\ csv["Churn"][i] = "No" => Table["Churn_Numeric"][i] = 0

\* C6 amended: Churn_Numeric is 1 for the label "Yes", 0 for "No", and
\* missing (NaN) for every other label.
C6_ChurnNumericMatchesLabel ==
    Loaded =>
        \A i \in Rows(Table) :
            /\ csv["Churn"][i] = "Yes" => Table["Churn_Numeric"][i] = 1
            /\ csv["Churn"][i] = "No" => Table["Churn_Numeric"][i] = 0
            /\ csv["Churn"][i] \notin {"Yes", "No"} => Table["Churn_Numeric"][i] = NaN

C6_Witness ==
    /\ Loaded
    /\ \E i \in Rows(Table) :
          csv["Churn"][i] \notin {"Yes", "No"} /\ Table["Churn_Numeric"][i] = NaN

\* C7: every step leaves the original columns of the loaded table as the
\* file (and the cleaning step) gave them, and a step that runs
\* calculate_risk_scores changes no column but Risk_Score.
C7_OriginalColumnsPreserved ==
    [][ /\ Loaded' =>
            /\ \A c \in ColumnNames \ {"TotalCharges"} : heap'[data'][c] = csv[c]
            /\ heap'[data']["TotalCharges"] = CleanTotalCharges(csv)["TotalCharges"]
        /\ (Loaded /\ scoreCalls' = scoreCalls + 1) =>
            \A c \in (DOMAIN heap[data]) \ {"Risk_Score"} : heap'[data'][c] = heap[data][c]
      ]_vars

C7_Witness ==
    /\ Loaded
    /\ scoreCalls >= 1
    /\ NRows(Table) >= 1
    /\ \A c \in ColumnNames \ {"TotalCharges"} : Table[c] = csv[c]

\* C8: running the feature-engineering lines again on the engineered table
\* leaves all four derived columns as the first run computed them.
C8_FeatureEngineerIdempotent ==
    [][LibFeatureEngineer =>
          \A c \in DerivedColumns : heap'[data'][c] = heap[data][c]]_vars

C8_Witness ==
    /\ engCalls >= 1
    /\ NRows(Table) >= 1
    /\ \E i \in Rows(Table) : Table["Service_Count"][i] >= 1

\* the rows of the file whose four-rule sum reaches the high-risk threshold
HighRiskRows == {i \in Rows(csv) : FourRuleSum(csv, i) >= 60}

\* C9: when the file exists, generate_report runs only on a table that
\* calculate_risk_scores has written Risk_Score on; it never fails for want
\* of the column, and the count it prints is the number of rows whose
\* four-rule sum is at least 60.
C9_ReportReadsScoredTable ==
    fileExists =>
        /\ ~report.raised
        /\ pc \in {"dashboard_done", "done"} =>
              /\ scoreCalls >= 1
              /\ "Risk_Score" \in DOMAIN Table
              /\ \A i \in Rows(Table) : Table["Risk_Score"][i] = FourRuleSum(csv, i)
        /\ pc = "done" => report.high_risk_base = Cardinality(HighRiskRows)

C9_Witness ==
    /\ fileExists
    /\ pc = "done"
    /\ report.high_risk_base >= 1
    /\ report.high_risk_base < NRows(Table)
    /\ "Risk_Score" \notin DOMAIN csv

\* C10: a further invocation of calculate_risk_scores leaves every row's
\* Risk_Score as the previous invocation left it, and no invocation, whatever
\* Risk_Score column the table held before, leaves a score above 100.
C10_RiskScoresOverwritten ==
    [][LibCalculateRiskScores =>
          /\ \A i \in Rows(heap'[data']) : heap'[data']["Risk_Score"][i] <= 100
          /\ scoreCalls >= 1 =>
                heap'[data']["Risk_Score"] = heap[data]["Risk_Score"]]_vars

C10_Witness ==
    /\ scoreCalls >= 2
    /\ "Risk_Score" \in DOMAIN csv
    /\ \E i \in Rows(Table) : Table["Risk_Score"][i] = 100

====
